---- MODULE Spec2Model ----
(***************************************************************************)
(* A model of the pixel-filter quantizer (src/src/filter.rs): hex palette  *)
(* parsing, nearest-colour search, the per-pixel error-feedback candidate  *)
(* loop, threshold-map selection and the write of the output pixel; and of  *)
(* the web App that holds the configuration (src/src/layout.rs).           *)
(*                                                                         *)
(* Numbers.  An sRGB channel (f32 in 0..1) is an integer in units of       *)
(* 1/(255*SubByte): the byte b is b*SubByte.  An Oklab coordinate is an    *)
(* integer in units of 1/1000.  A dither coefficient is a fraction         *)
(* [num, den].  An alpha value is an integer in units of 1/255.            *)
(***************************************************************************)
EXTENDS Integers, Sequences, FiniteSets, TLC

VARIABLES
    pc,             \* where the current call stands
    img,            \* the input image: [w, h, px], px row-major
    threshold_map,  \* arguments of run_with_parameters
    color_dither,
    alpha_dither,
    palette_hex,
    palette_oklab,  \* local of run / run_with_parameters
    output_buffer,  \* local, returned on success
    cursor,         \* number of pixels the enumerate_pixels loop has consumed
    error_c,        \* the accumulators as the last pixel left them
    error_a,
    writes,         \* how often each output position was written
    result,         \* what the call returned: "none", "Ok", "Err"
    fperr,          \* how the Oklab -> sRGB conversion rounds in each channel
    call,           \* argument of a helper called on its own
    ret,            \* its return value
    app,            \* the web App: its fields, the image shown and the canvas
    msgs,           \* the messages App::update has been given, oldest first
    update_ret      \* what the last update returned: "none", "true", "false", "panic"

vars == << pc, img, threshold_map, color_dither, alpha_dither, palette_hex,
           palette_oklab, output_buffer, cursor, error_c, error_a, writes,
           result, fperr, call, ret, app, msgs, update_ret >>

\* the variables of the web App
app_vars == << app, msgs, update_ret >>

(***************************************************************************)
(* Bounds of the model.                                                    *)
(***************************************************************************)
MaxDim == 2        \* image width and height range over 0..MaxDim
MaxPixels == 4     \* and width * height is at most MaxPixels
MaxHexLen == 7     \* characters of a string given to hex_to_rgb
MaxPaletteLen == 3 \* entries of a palette given to find_closest on its own
DitherDen == 25    \* alpha dither coefficients k/DitherDen, k in 0..DitherDen
SubByte == 4       \* fixed-point steps of an sRGB channel per 1/255
MaxMsgs == 2       \* messages given to App::update in one run

(***************************************************************************)
(* Program constants.                                                      *)
(***************************************************************************)
THRESHOLD_MAP == << <<0, 2>>, <<3, 1>> >>
MAP_SIZE == 2
COLOR_DITHER == [num |-> 1, den |-> 25]   \* 0.04
ALPHA_DITHER == [num |-> 3, den |-> 25]   \* 0.12
U8_MAX == 255

PALETTE_HEX ==
    << <<"1","b","1","1","2","c">>, <<"4","1","3","0","4","7">>, <<"5","4","3","e","5","4">>, <<"7","5","5","9","6","f">>,
       <<"9","1","7","1","8","b">>, <<"b","3","9","1","a","a">>, <<"c","c","b","3","c","6">>, <<"e","3","c","f","e","3">>,
       <<"f","f","f","7","f","f">>, <<"f","f","f","b","b","5">>, <<"f","a","f","3","8","e">>, <<"f","7","d","0","7","6">>,
       <<"f","a","9","c","6","9">>, <<"e","b","7","3","6","3">>, <<"e","8","4","5","4","5">>, <<"c","2","2","e","5","3">>,
       <<"9","4","3","0","5","4">>, <<"6","1","2","1","4","7">>, <<"3","d","1","7","3","c">>, <<"3","f","2","3","3","c">>,
       <<"6","6","3","3","4","b">>, <<"8","c","4","b","6","3">>, <<"c","1","6","a","7","d">>, <<"e","5","9","5","9","f">>,
       <<"f","f","c","c","d","0">>, <<"d","d","8","d","9","f">>, <<"c","8","6","5","8","d">>, <<"b","6","3","f","8","2">>,
       <<"9","e","2","0","8","3">>, <<"7","3","1","f","7","a">>, <<"4","7","1","9","5","d">>, <<"2","a","1","4","3","d">>,
       <<"1","8","3","0","4","2">>, <<"1","e","5","4","5","1">>, <<"2","a","6","9","5","7">>, <<"3","b","8","0","4","d">>,
       <<"5","a","a","6","5","3">>, <<"8","6","c","f","7","4">>, <<"c","a","f","0","9","5">>, <<"e","0","f","0","b","d">>,
       <<"3","f","2","7","5","e">>, <<"3","f","3","1","7","a">>, <<"3","c","5","4","8","f">>, <<"4","5","6","a","a","1">>,
       <<"4","a","8","4","b","0">>, <<"5","6","a","e","c","4">>, <<"9","2","d","7","d","9">>, <<"c","3","e","b","e","3">> >>

(***************************************************************************)
(* Srgb -> Oklab (into_color) on the colours the model uses, rounded to    *)
(* 1/1000: the 48 palette colours, white, black, 0f0000 and mid grey.      *)
(***************************************************************************)
OklabTable ==
    (<<27,17,44>> :> <<207,25,-46>>) @@ (<<65,48,71>> :> <<338,33,-31>>) @@ (<<84,62,84>> :> <<396,39,-26>>) @@
    (<<117,89,111>> :> <<500,44,-22>>) @@ (<<145,113,139>> :> <<588,49,-25>>) @@ (<<179,145,170>> :> <<696,49,-22>>) @@
    (<<204,179,198>> :> <<794,35,-17>>) @@ (<<227,207,227>> :> <<877,29,-19>>) @@ (<<255,247,255>> :> <<985,11,-8>>) @@
    (<<255,251,181>> :> <<975,-23,85>>) @@ (<<250,243,142>> :> <<948,-32,119>>) @@ (<<247,208,118>> :> <<873,7,117>>) @@
    (<<250,156,105>> :> <<778,87,98>>) @@ (<<235,115,99>> :> <<693,132,74>>) @@ (<<232,69,69>> :> <<626,181,85>>) @@
    (<<194,46,83>> :> <<543,180,37>>) @@ (<<148,48,84>> :> <<467,137,5>>) @@ (<<97,33,71>> :> <<358,101,-23>>) @@
    (<<61,23,60>> :> <<279,69,-42>>) @@ (<<63,35,60>> :> <<303,51,-28>>) @@ (<<102,51,75>> :> <<395,79,-11>>) @@
    (<<140,75,99>> :> <<498,92,-4>>) @@ (<<193,106,125>> :> <<628,111,13>>) @@ (<<229,149,159>> :> <<753,95,19>>) @@
    (<<255,204,208>> :> <<891,57,13>>) @@ (<<221,141,159>> :> <<730,99,9>>) @@ (<<200,101,141>> :> <<635,133,-9>>) @@
    (<<182,63,130>> :> <<555,165,-32>>) @@ (<<158,32,131>> :> <<488,176,-69>>) @@ (<<115,31,122>> :> <<413,131,-93>>) @@
    (<<71,25,93>> :> <<320,81,-88>>) @@ (<<42,20,61>> :> <<246,46,-62>>) @@ (<<24,48,66>> :> <<299,-20,-40>>) @@
    (<<30,84,81>> :> <<409,-56,-10>>) @@ (<<42,105,87>> :> <<474,-71,10>>) @@ (<<59,128,77>> :> <<541,-92,53>>) @@
    (<<90,166,83>> :> <<656,-110,86>>) @@ (<<134,207,116>> :> <<785,-109,93>>) @@ (<<202,240,149>> :> <<907,-75,98>>) @@
    (<<224,240,189>> :> <<930,-36,59>>) @@ (<<63,39,94>> :> <<331,50,-81>>) @@ (<<63,49,122>> :> <<371,37,-113>>) @@
    (<<60,84,143>> :> <<456,-7,-101>>) @@ (<<69,106,161>> :> <<522,-20,-95>>) @@ (<<74,132,176>> :> <<592,-41,-81>>) @@
    (<<86,174,196>> :> <<705,-72,-53>>) @@ (<<146,215,217>> :> <<834,-66,-22>>) @@ (<<195,235,227>> :> <<909,-43,-1>>) @@
    (<<255,255,255>> :> <<1000,0,0>>) @@ (<<0,0,0>> :> <<0,0,0>>) @@ (<<15,0,0>> :> <<106,38,21>>) @@
    (<<128,128,128>> :> <<600,0,0>>)

(***************************************************************************)
(* Strings.  A string is a sequence of characters; a character outside     *)
(* ASCII takes two bytes in UTF-8, and str::len and slicing count bytes.   *)
(***************************************************************************)
TwoByteChars == {"U+00E9"}

\* the hexadecimal digits and their values
HexDigitValue ==
    ("0" :> 0) @@ ("1" :> 1) @@ ("2" :> 2) @@ ("3" :> 3) @@ ("4" :> 4) @@ ("5" :> 5) @@ ("6" :> 6) @@ ("7" :> 7) @@
    ("8" :> 8) @@ ("9" :> 9) @@ ("a" :> 10) @@ ("b" :> 11) @@ ("c" :> 12) @@ ("d" :> 13) @@ ("e" :> 14) @@ ("f" :> 15) @@
    ("A" :> 10) @@ ("B" :> 11) @@ ("C" :> 12) @@ ("D" :> 13) @@ ("E" :> 14) @@ ("F" :> 15)

\* char::to_digit(16): the digit's value, or -1 for None
to_digit(ch) == IF ch \in DOMAIN HexDigitValue THEN HexDigitValue[ch] ELSE -1

len_utf8(ch) == IF ch \in TwoByteChars THEN 2 ELSE 1

RECURSIVE str_len(_)
str_len(s) == IF s = <<>> THEN 0 ELSE len_utf8(Head(s)) + str_len(Tail(s))

\* the number of leading characters that make up exactly k bytes, or -1
\* when byte offset k is not a character boundary
RECURSIVE chars_before(_, _)
chars_before(s, k) ==
    IF k = 0 THEN 0
    ELSE IF s = <<>> \/ len_utf8(Head(s)) > k THEN -1
    ELSE LET n == chars_before(Tail(s), k - len_utf8(Head(s)))
         IN  IF n = -1 THEN -1 ELSE n + 1

is_char_boundary(s, k) == chars_before(s, k) # -1

\* &s[i..j] for boundaries i <= j
str_slice(s, i, j) == SubSeq(s, chars_before(s, i) + 1, chars_before(s, j))

\* the fold of u8::from_str_radix over the digits: the value, or -1 for
\* Err(InvalidDigit) and Err(PosOverflow)
RECURSIVE radix_fold(_, _)
radix_fold(digits, acc) ==
    IF digits = <<>> THEN acc
    ELSE LET d == to_digit(Head(digits))
         IN  IF d = -1 \/ acc * 16 + d > U8_MAX THEN -1
             ELSE radix_fold(Tail(digits), acc * 16 + d)

\* u8::from_str_radix(src, 16): a lone sign is an error, a leading "+" is
\* skipped, a leading "-" is left to fail as a digit (u8 is unsigned)
from_str_radix(src) ==
    IF src = <<>> THEN -1
    ELSE IF Len(src) = 1 /\ Head(src) \in {"+", "-"} THEN -1
    ELSE IF Head(src) = "+" THEN radix_fold(Tail(src), 0)
    ELSE radix_fold(src, 0)

HexErr == [tag |-> "Err"]
HexPanic == [tag |-> "Panic"]
\* u8 as f32 / 255.0, three times: Srgb::new
srgb_of_bytes(r, g, b) == <<r * SubByte, g * SubByte, b * SubByte>>

HexOk(r, g, b) == [tag |-> "Ok", rgb |-> srgb_of_bytes(r, g, b)]

\* u8::from_str_radix(&hex[i..j], 16)
parse_pair(hex, i, j) == from_str_radix(str_slice(hex, i, j))

\* Each slice panics unless it ends on a character boundary; each `?`
\* returns the error before the next slice is taken.
hex_to_rgb(hex) ==
    IF str_len(hex) # 6 THEN HexErr
    ELSE IF ~ is_char_boundary(hex, 2) THEN HexPanic
    ELSE LET r == parse_pair(hex, 0, 2)
         IN  IF r = -1 THEN HexErr
             ELSE IF ~ is_char_boundary(hex, 4) THEN HexPanic
             ELSE LET g == parse_pair(hex, 2, 4)
                  IN  IF g = -1 THEN HexErr
                      ELSE LET b == parse_pair(hex, 4, 6)
                           IN  IF b = -1 THEN HexErr ELSE HexOk(r, g, b)

(***************************************************************************)
(* Colours.                                                                *)
(***************************************************************************)
Channels == 1..3
OklabZero == <<0, 0, 0>>                 \* Oklab::new(0.0, 0.0, 0.0)
F32_MAX == 2147483647                    \* std::f32::MAX, above every distance

\* Srgb -> Oklab
to_oklab(srgb) ==
    OklabTable[<<srgb[1] \div SubByte, srgb[2] \div SubByte, srgb[3] \div SubByte>>]

\* the table read backwards
SrgbTable ==
    [lab \in {OklabTable[k] : k \in DOMAIN OklabTable} |->
        CHOOSE k \in DOMAIN OklabTable : OklabTable[k] = lab]

clamp(v, lo, hi) == IF v < lo THEN lo ELSE IF v > hi THEN hi ELSE v

\* Oklab -> Srgb: the sRGB colour the Oklab value came from, each channel
\* off by the conversion's rounding err[ch] (in fixed-point steps), clamped
\* to 0..1 by into_color
from_oklab(lab, err) ==
    LET rgb == SrgbTable[lab]
    IN  [ch \in Channels |-> clamp(rgb[ch] * SubByte + err[ch], 0, U8_MAX * SubByte)]

\* (v * 255.0) as u8: truncation toward zero, saturating
to_u8(v) == clamp(v \div SubByte, 0, U8_MAX)

oklab_add(u, v) == [ch \in Channels |-> u[ch] + v[ch]]
oklab_sub(u, v) == [ch \in Channels |-> u[ch] - v[ch]]

\* n / d rounded to the nearest unit
round_div(n, d) == (2 * n + d) \div (2 * d)

\* Oklab * f32
oklab_mul(u, k) == [ch \in Channels |-> round_div(u[ch] * k.num, k.den)]

distance_squared(u, v) ==
    (u[1] - v[1]) * (u[1] - v[1]) + (u[2] - v[2]) * (u[2] - v[2])
        + (u[3] - v[3]) * (u[3] - v[3])

\* the scan with `<=` for `<`: the last of the nearest entries wins
RECURSIVE closest_scan_last_wins(_, _, _, _, _)
closest_scan_last_wins(palette, color, i, dist_of_closest, closest) ==
    IF i > Len(palette) THEN closest
    ELSE LET d == distance_squared(color, palette[i])
         IN  IF d <= dist_of_closest
             THEN closest_scan_last_wins(palette, color, i + 1, d, palette[i])
             ELSE closest_scan_last_wins(palette, color, i + 1, dist_of_closest, closest)

\* the scan of find_closest from entry i on
RECURSIVE closest_scan(_, _, _, _, _)
closest_scan(palette, color, i, dist_of_closest, closest) ==
    IF i > Len(palette) THEN closest
    ELSE LET d == distance_squared(color, palette[i])
         IN  IF d < dist_of_closest
             THEN closest_scan(palette, color, i + 1, d, palette[i])
             ELSE closest_scan(palette, color, i + 1, dist_of_closest, closest)

find_closest(palette, color) == closest_scan(palette, color, 1, F32_MAX, OklabZero)

\* palette_as_oklab: entry by entry; the unwrap panics on the first entry
\* that hex_to_rgb rejects
RECURSIVE palette_scan(_, _)
palette_scan(hexes, oklab_palette) ==
    IF hexes = <<>> THEN [tag |-> "Ok", val |-> oklab_palette]
    ELSE LET rgb == hex_to_rgb(Head(hexes))
         IN  IF rgb.tag # "Ok" THEN [tag |-> "Panic"]
             ELSE palette_scan(Tail(hexes), Append(oklab_palette, to_oklab(rgb.rgb)))

palette_as_oklab(hexes) == palette_scan(hexes, <<>>)

(***************************************************************************)
(* The per-pixel candidate loop.                                           *)
(***************************************************************************)
\* f32::round of n / d: to the nearest integer, halves away from zero
round_half_away(n, d) ==
    IF n >= 0 THEN (2 * n + d) \div (2 * d) ELSE 0 - ((2 * (0 - n) + d) \div (2 * d))

\* sample_a.round() for alpha a/255, error e/255 and coefficient k
candidate_alpha(a, e, k) == round_half_away(a * k.den + e * k.num, U8_MAX * k.den)

\* the update with its sign turned: error_a += candidate_a - alpha_f32
next_error_a_turned(a, e, cand) == e + (cand * U8_MAX - a)

\* error_a += alpha_f32 - candidate_a, in units of 1/255
next_error_a(a, e, cand) == e + (a - cand * U8_MAX)

\* error_c += pixel_oklab - candidate_c
next_error_c(pixel_oklab, e, cand) == oklab_add(e, oklab_sub(pixel_oklab, cand))

\* `for _ in 0..map_size.pow(2)` from iteration i on; st holds candidates_c,
\* candidates_a, error_c and error_a
RECURSIVE candidate_loop(_, _, _, _, _, _, _, _)
candidate_loop(i, n, pixel_oklab, a, palette, cd, ad, st) ==
    IF i >= n THEN st
    ELSE LET sample_c == oklab_add(pixel_oklab, oklab_mul(st.error_c, cd))
             candidate_c == find_closest(palette, sample_c)
             candidate_a == candidate_alpha(a, st.error_a, ad)
         IN  candidate_loop(i + 1, n, pixel_oklab, a, palette, cd, ad,
                 [candidates_c |-> Append(st.candidates_c, candidate_c),
                  candidates_a |-> Append(st.candidates_a, candidate_a),
                  error_c |-> next_error_c(pixel_oklab, st.error_c, candidate_c),
                  error_a |-> next_error_a(a, st.error_a, candidate_a)])

\* the colour accumulator as if it were declared outside the pixel loop and
\* never reset
carried_error_c(left) == left

\* the accumulators a pixel starts from: `let mut error_c = Oklab::new(0.0,
\* 0.0, 0.0)` and `let mut error_a = 0.0`, whatever the pixel before left
fresh_error_c(left) == OklabZero
fresh_error_a(left) == 0

Last(s) == s[Len(s)]
Front(s) == SubSeq(s, 1, Len(s) - 1)

\* the candidates left in the order the loop pushed them
left_unsorted(s) == s

\* candidates_c.sort_by(l1.partial_cmp(l2)): a stable sort by lightness
RECURSIVE insert_by_l(_, _)
insert_by_l(s, x) ==
    IF s = <<>> THEN <<x>>
    ELSE IF Last(s)[1] <= x[1] THEN Append(s, x)
    ELSE Append(insert_by_l(Front(s), x), Last(s))

RECURSIVE sort_by_l(_)
sort_by_l(s) ==
    IF s = <<>> THEN <<>>
    ELSE insert_by_l(sort_by_l(Front(s)), Last(s))

\* candidates_a.sort_by(a1.partial_cmp(a2))
RECURSIVE insert_by_value(_, _)
insert_by_value(s, x) ==
    IF s = <<>> THEN <<x>>
    ELSE IF Last(s) <= x THEN Append(s, x)
    ELSE Append(insert_by_value(Front(s), x), Last(s))

RECURSIVE sort_by_value(_)
sort_by_value(s) ==
    IF s = <<>> THEN <<>>
    ELSE insert_by_value(sort_by_value(Front(s)), Last(s))

\* (chosen_alpha * 255.0) as u8
alpha_to_u8(cand) == clamp(cand * U8_MAX, 0, U8_MAX)

\* the candidates of one pixel [r, g, b, a], the accumulators starting at
\* e_c and e_a
pixel_candidates(pixel, tm, cd, ad, palette, e_c, e_a) ==
    candidate_loop(0, Len(tm) * Len(tm),
        to_oklab(srgb_of_bytes(pixel[1], pixel[2], pixel[3])), pixel[4],
        palette, cd, ad,
        [candidates_c |-> <<>>, candidates_a |-> <<>>, error_c |-> e_c, error_a |-> e_a])

\* the map read as ranks counted from one
map_index_from_one(tm, x, y) == tm[(x % Len(tm)) + 1][(y % Len(tm)) + 1] + 1

\* threshold_map[x as usize % map_size][y as usize % map_size]
map_index(tm, x, y) == tm[(x % Len(tm)) + 1][(y % Len(tm)) + 1]

\* the body of the pixel loop for the pixel at (x, y): the bytes written,
\* or a panic when the index is past the candidates
loop_body(pixel, x, y, tm, cd, ad, palette, err, e_c, e_a) ==
    LET st == pixel_candidates(pixel, tm, cd, ad, palette, e_c, e_a)
        sorted_c == sort_by_l(st.candidates_c)
        sorted_a == sort_by_value(st.candidates_a)
        index == map_index(tm, x, y)
    IN  IF index >= Len(sorted_c)
        THEN [tag |-> "Panic", error_c |-> st.error_c, error_a |-> st.error_a]
        ELSE LET chosen_color == from_oklab(sorted_c[index + 1], err)
                 chosen_alpha == sorted_a[index + 1]
             IN  [tag |-> "Ok",
                  px |-> <<to_u8(chosen_color[1]), to_u8(chosen_color[2]),
                           to_u8(chosen_color[3]), alpha_to_u8(chosen_alpha)>>,
                  error_c |-> st.error_c, error_a |-> st.error_a]

(***************************************************************************)
(* Inputs.                                                                 *)
(***************************************************************************)
White == <<255, 255, 255, 255>>
Grey == <<128, 128, 128, 100>>
PixelPool == { White, Grey }

Shapes ==
    { d \in (0..MaxDim) \X (0..MaxDim) : d[1] * d[2] <= MaxPixels }

Images ==
    UNION { { [w |-> d[1], h |-> d[2], px |-> p] : p \in [1..(d[1] * d[2]) -> PixelPool] }
            : d \in Shapes }

Hex_1b112c == <<"1","b","1","1","2","c">>
Hex_ffffff == <<"f","f","f","f","f","f">>
Hex_e84545 == <<"e","8","4","5","4","5">>
Hex_zz0000 == <<"z","z","0","0","0","0">>

Palettes ==
    { <<Hex_ffffff, Hex_1b112c>>,
      <<Hex_e84545, Hex_1b112c, Hex_ffffff, Hex_1b112c>>,
      <<Hex_1b112c, Hex_zz0000>> }

ThresholdMaps ==
    { THRESHOLD_MAP, << <<1, 1>>, <<0, 3>> >>, << <<0, 4>>, <<3, 1>> >> }

Zero == [num |-> 0, den |-> 1]
One == [num |-> 1, den |-> 1]
DitherPairs == { <<Zero, Zero>>, <<One, One>> }

\* the conversion lands a step below the exact value, on it, or a step above
RoundErrs == {-1, 0, 1}

NoImage == [w |-> 0, h |-> 0, px |-> <<>>]

\* the buffer with width and height exchanged
new_buffer_transposed(w, h) == [w |-> h, h |-> w, px |-> [k \in 1..(w * h) |-> <<0, 0, 0, 0>>]]

\* ImageBuffer::new(w, h): zeroed
new_buffer(w, h) == [w |-> w, h |-> h, px |-> [k \in 1..(w * h) |-> <<0, 0, 0, 0>>]]

(***************************************************************************)
(* The web App as App::create leaves it: the four configuration fields at  *)
(* the constants, no image in the image element, an empty canvas and no    *)
(* file being read.                                                        *)
(***************************************************************************)
App_create ==
    [threshold_map |-> THRESHOLD_MAP,
     color_dither |-> COLOR_DITHER,
     alpha_dither |-> ALPHA_DITHER,
     palette_hex |-> PALETTE_HEX,
     image_element |-> NoImage,
     target_canvas |-> NoImage,
     readers |-> {}]

AppCreated ==
    /\ app = App_create
    /\ msgs = <<>>
    /\ update_ret = "none"

(***************************************************************************)
(* run_with_parameters and run, one pixel per step.                        *)
(***************************************************************************)
Init ==
    /\ pc = "idle"
    /\ img = NoImage
    /\ threshold_map = THRESHOLD_MAP
    /\ color_dither = COLOR_DITHER
    /\ alpha_dither = ALPHA_DITHER
    /\ palette_hex = <<>>
    /\ palette_oklab = <<>>
    /\ output_buffer = NoImage
    /\ cursor = 0
    /\ error_c = OklabZero
    /\ error_a = 0
    /\ writes = <<>>
    /\ result = "none"
    /\ fperr \in [Channels -> RoundErrs]
    /\ call = "none"
    /\ ret = "none"
    /\ AppCreated

\* lines 26-30: the buffer is allocated, then the palette is parsed
rwp_enter(image, tm, cd, ad, hexes) ==
    /\ img' = image
    /\ threshold_map' = tm
    /\ color_dither' = cd
    /\ alpha_dither' = ad
    /\ palette_hex' = hexes
    /\ output_buffer' = new_buffer(image.w, image.h)
    /\ writes' = [k \in 1..(image.w * image.h) |-> 0]
    /\ cursor' = 0
    /\ LET p == palette_as_oklab(hexes)
       IN  IF p.tag = "Ok"
           THEN palette_oklab' = p.val /\ pc' = "rwp_loop"
           ELSE palette_oklab' = <<>> /\ pc' = "panicked"
    /\ UNCHANGED << error_c, error_a, result, fperr, call, ret, app_vars >>

run_with_parameters_call ==
    /\ pc = "idle"
    /\ \E image \in Images, tm \in ThresholdMaps, d \in DitherPairs, hexes \in Palettes :
           rwp_enter(image, tm, d[1], d[2], hexes)

\* the pixel the loop is at, and what the loop body makes of it
step_of(tm, cd, ad) ==
    loop_body(img.px[cursor + 1], cursor % img.w, cursor \div img.w, tm, cd, ad,
              palette_oklab, fperr, fresh_error_c(error_c), fresh_error_a(error_a))

\* one turn of `for pixel in pixels`: the write at (x, y), or the panic
pixel_step(out) ==
    /\ error_c' = out.error_c
    /\ error_a' = out.error_a
    /\ IF out.tag = "Ok"
       THEN /\ output_buffer' = [output_buffer EXCEPT !.px[cursor + 1] = out.px]
            /\ writes' = [writes EXCEPT ![cursor + 1] = @ + 1]
            /\ cursor' = cursor + 1
            /\ pc' = pc
       ELSE /\ pc' = "panicked"
            /\ UNCHANGED << output_buffer, writes, cursor >>
    /\ UNCHANGED << img, threshold_map, color_dither, alpha_dither, palette_hex,
                    palette_oklab, result, fperr, call, ret, app_vars >>

run_with_parameters_pixel ==
    /\ pc = "rwp_loop"
    /\ cursor < img.w * img.h
    /\ pixel_step(step_of(threshold_map, color_dither, alpha_dither))

\* Ok(output_buffer)
loop_return ==
    /\ cursor = img.w * img.h
    /\ pc' = "done"
    /\ result' = "Ok"
    /\ UNCHANGED << img, threshold_map, color_dither, alpha_dither, palette_hex,
                    palette_oklab, output_buffer, cursor, error_c, error_a, writes,
                    fperr, call, ret, app_vars >>

run_with_parameters_return == pc = "rwp_loop" /\ loop_return

\* palette_as_oklab(&PALETTE_HEX)
DEFAULT_PALETTE == palette_as_oklab(PALETTE_HEX)

\* run: the same with the constants
run_call ==
    /\ pc = "idle"
    /\ \E image \in Images :
        /\ img' = image
        /\ output_buffer' = new_buffer(image.w, image.h)
        /\ writes' = [k \in 1..(image.w * image.h) |-> 0]
        /\ cursor' = 0
        /\ palette_hex' = PALETTE_HEX
        /\ IF DEFAULT_PALETTE.tag = "Ok"
           THEN palette_oklab' = DEFAULT_PALETTE.val /\ pc' = "run_loop"
           ELSE palette_oklab' = <<>> /\ pc' = "panicked"
        /\ UNCHANGED << threshold_map, color_dither, alpha_dither, error_c, error_a,
                        result, fperr, call, ret, app_vars >>

run_pixel ==
    /\ pc = "run_loop"
    /\ cursor < img.w * img.h
    /\ pixel_step(step_of(THRESHOLD_MAP, COLOR_DITHER, ALPHA_DITHER))

run_return == pc = "run_loop" /\ loop_return

Next ==
    \/ run_with_parameters_call
    \/ run_with_parameters_pixel
    \/ run_with_parameters_return
    \/ run_call
    \/ run_pixel
    \/ run_return

Spec == Init /\ [][Next]_vars

(***************************************************************************)
(* hex_to_rgb on its own: every string of at most MaxHexLen characters     *)
(* over HexAlphabet.                                                       *)
(***************************************************************************)
HexAlphabet == {"7", "c", "E", "g", "+", "-", "U+00E9"}

HexStrings == UNION { [1..n -> HexAlphabet] : n \in 0..MaxHexLen }

Idle ==
    /\ pc = "idle"
    /\ img = NoImage
    /\ threshold_map = THRESHOLD_MAP
    /\ color_dither = COLOR_DITHER
    /\ alpha_dither = ALPHA_DITHER
    /\ palette_hex = <<>>
    /\ palette_oklab = <<>>
    /\ output_buffer = NoImage
    /\ cursor = 0
    /\ error_c = OklabZero
    /\ error_a = 0
    /\ writes = <<>>
    /\ result = "none"
    /\ fperr = [ch \in Channels |-> 0]
    /\ ret = "none"
    /\ AppCreated

\* a helper returns v
returns(v) ==
    /\ pc = "idle"
    /\ pc' = "returned"
    /\ ret' = v
    /\ UNCHANGED << img, threshold_map, color_dither, alpha_dither, palette_hex,
                    palette_oklab, output_buffer, cursor, error_c, error_a, writes,
                    result, fperr, call, app_vars >>

InitHex == Idle /\ call \in HexStrings

hex_to_rgb_call == returns(hex_to_rgb(call))

SpecHex == InitHex /\ [][hex_to_rgb_call]_vars

(***************************************************************************)
(* find_closest on its own: palettes of at most MaxPaletteLen colours and  *)
(* a colour, all on a small grid of Oklab points where ties happen.        *)
(***************************************************************************)
GridPoints == { <<l, a, 0>> : l \in 0..2, a \in -1..1 }

GridPalettes == UNION { [1..n -> GridPoints] : n \in 0..MaxPaletteLen }

InitClosest ==
    /\ Idle
    /\ call \in { [palette |-> p, color |-> c] : p \in GridPalettes, c \in GridPoints }

find_closest_call == returns(find_closest(call.palette, call.color))

SpecClosest == InitClosest /\ [][find_closest_call]_vars

(***************************************************************************)
(* The alpha half of the candidate loop on its own: every alpha byte and   *)
(* every coefficient k/DitherDen in 0..1.  The colour half runs on white   *)
(* with a palette of white alone.                                          *)
(***************************************************************************)
AlphaDithers == { [num |-> k, den |-> DitherDen] : k \in 0..DitherDen }

InitAlpha ==
    /\ Idle
    /\ call \in { [a |-> a, ad |-> k] : a \in 0..U8_MAX, k \in AlphaDithers }

alpha_candidates(a, ad) ==
    pixel_candidates(<<White[1], White[2], White[3], a>>, THRESHOLD_MAP, Zero, ad,
                     <<to_oklab(srgb_of_bytes(White[1], White[2], White[3]))>>,
                     fresh_error_c(error_c), fresh_error_a(error_a)).candidates_a

alpha_loop_call == returns(alpha_candidates(call.a, call.ad))

SpecAlpha == InitAlpha /\ [][alpha_loop_call]_vars

(***************************************************************************)
(* The web App (src/src/layout.rs).  A string is a sequence of characters; *)
(* the values given to OnEdit are parsed as the code parses them:          *)
(* str::parse::<f32> for the two coefficients, serde_json::from_str for    *)
(* the threshold map ([[usize; 2]; 2]) and the palette (Vec<String>).      *)
(***************************************************************************)
DecDigits == {"0", "1", "2", "3", "4", "5", "6", "7", "8", "9"}

all_digits(s) == \A i \in 1..Len(s) : s[i] \in DecDigits

\* the decimal digits s read after the value acc
RECURSIVE digits_value(_, _)
digits_value(s, acc) ==
    IF s = <<>> THEN acc
    ELSE digits_value(Tail(s), 10 * acc + HexDigitValue[Head(s)])

RECURSIVE pow10(_)
pow10(n) == IF n = 0 THEN 1 ELSE 10 * pow10(n - 1)

\* the position of the first c in s, 0 when there is none
first_index(s, c) ==
    IF \E i \in 1..Len(s) : s[i] = c
    THEN CHOOSE i \in 1..Len(s) : s[i] = c /\ \A j \in 1..(i - 1) : s[j] # c
    ELSE 0

ParseErr == [tag |-> "Err"]
ParseOk(v) == [tag |-> "Ok", val |-> v]

\* value.parse::<f32>(): an optional sign, digits with at most one point
\* among them and at least one digit; no surrounding space.  The value is
\* the fraction [num, den].  (Exponents, inf and nan need letters that no
\* value of EditValues has.)
parse_f32(value) ==
    LET signed == value # <<>> /\ Head(value) \in {"+", "-"}
        body == IF signed THEN Tail(value) ELSE value
        dot == first_index(body, ".")
        int_part == IF dot = 0 THEN body ELSE SubSeq(body, 1, dot - 1)
        frac_part == IF dot = 0 THEN <<>> ELSE SubSeq(body, dot + 1, Len(body))
        magnitude == digits_value(int_part \o frac_part, 0)
    IN  IF all_digits(int_part) /\ all_digits(frac_part)
           /\ Len(int_part) + Len(frac_part) > 0
        THEN ParseOk([num |-> IF signed /\ Head(value) = "-" THEN 0 - magnitude
                              ELSE magnitude,
                      den |-> pow10(Len(frac_part))])
        ELSE ParseErr

\* JSON whitespace is skipped between tokens
RECURSIVE skip_ws(_)
skip_ws(s) == IF s # <<>> /\ Head(s) = " " THEN skip_ws(Tail(s)) ELSE s

starts(s, c) == s # <<>> /\ Head(s) = c

Fail == [ok |-> FALSE]
Parsed(v, rest) == [ok |-> TRUE, val |-> v, rest |-> rest]

RECURSIVE digit_prefix_len(_)
digit_prefix_len(s) ==
    IF s # <<>> /\ Head(s) \in DecDigits THEN 1 + digit_prefix_len(Tail(s)) ELSE 0

\* a usize: digits, with nothing after a leading 0; a sign or any other
\* character is an error
json_usize(s) ==
    IF s = <<>> \/ Head(s) \notin DecDigits THEN Fail
    ELSE IF Head(s) = "0" THEN Parsed(0, Tail(s))
    ELSE LET n == digit_prefix_len(s)
         IN  Parsed(digits_value(SubSeq(s, 1, n), 0), SubSeq(s, n + 1, Len(s)))

\* [usize; 2]: an array of exactly two
json_row(s) ==
    IF ~starts(s, "[") THEN Fail
    ELSE LET a == json_usize(skip_ws(Tail(s)))
         IN  IF ~a.ok \/ ~starts(skip_ws(a.rest), ",") THEN Fail
             ELSE LET b == json_usize(skip_ws(Tail(skip_ws(a.rest))))
                  IN  IF ~b.ok \/ ~starts(skip_ws(b.rest), "]") THEN Fail
                      ELSE Parsed(<<a.val, b.val>>, Tail(skip_ws(b.rest)))

\* serde_json::from_str::<[[usize; 2]; 2]>: two rows, and nothing but space
\* after the closing bracket
parse_threshold_map(value) ==
    IF ~starts(skip_ws(value), "[") THEN ParseErr
    ELSE LET a == json_row(skip_ws(Tail(skip_ws(value))))
         IN  IF ~a.ok \/ ~starts(skip_ws(a.rest), ",") THEN ParseErr
             ELSE LET b == json_row(skip_ws(Tail(skip_ws(a.rest))))
                  IN  IF ~b.ok \/ ~starts(skip_ws(b.rest), "]") THEN ParseErr
                      ELSE IF skip_ws(Tail(skip_ws(b.rest))) # <<>> THEN ParseErr
                      ELSE ParseOk(<<a.val, b.val>>)

\* a JSON string: the characters up to the closing quote.  (Escapes need a
\* backslash, which no value of EditValues has.)
json_string(s) ==
    IF ~starts(s, "\"") THEN Fail
    ELSE LET close == first_index(Tail(s), "\"")
         IN  IF close = 0 THEN Fail
             ELSE Parsed(SubSeq(Tail(s), 1, close - 1),
                         SubSeq(Tail(s), close + 1, Len(Tail(s))))

\* the elements of the array from the one s starts with, up to the `]`
RECURSIVE json_strings(_, _)
json_strings(s, acc) ==
    LET e == json_string(s)
    IN  IF ~e.ok THEN Fail
        ELSE IF starts(skip_ws(e.rest), ",")
             THEN json_strings(skip_ws(Tail(skip_ws(e.rest))), Append(acc, e.val))
        ELSE IF starts(skip_ws(e.rest), "]")
             THEN Parsed(Append(acc, e.val), Tail(skip_ws(e.rest)))
        ELSE Fail

\* serde_json::from_str::<Vec<String>>
parse_palette_hex(value) ==
    IF ~starts(skip_ws(value), "[") THEN ParseErr
    ELSE LET inner == skip_ws(Tail(skip_ws(value)))
             items == IF starts(inner, "]") THEN Parsed(<<>>, Tail(inner))
                      ELSE json_strings(inner, <<>>)
         IN  IF ~items.ok THEN ParseErr
             ELSE IF skip_ws(items.rest) # <<>> THEN ParseErr
             ELSE ParseOk(items.val)

\* the values an OnEdit may carry
\* 0.5: f32: one half
Value_half ==
    <<"0", ".", "5">>
\* 1: f32: one
Value_one ==
    <<"1">>
\* x: no number and no JSON
Value_x ==
    <<"x">>
\* [[0, 4], [3, 1]]: a map, laid out as the view prints one, holding 4
Value_map_0431 ==
    <<"[", "[", "0", ",", " ", "4", "]", ",", " ", "[", "3", ",", " ", "1", "]", "]">>
\* [[3,1],[0,2]]: a map, the default with its rows exchanged
Value_map_3102 ==
    <<"[", "[", "3", ",", "1", "]", ",", "[", "0", ",", "2", "]", "]">>
\* [[0, 2], [3]]: a row of one element
Value_map_short ==
    <<"[", "[", "0", ",", " ", "2", "]", ",", " ", "[", "3", "]", "]">>
\* ["ffffff", "1b112c"]: a palette of two entries
Value_palette_two ==
    <<"[", "\"", "f", "f", "f", "f", "f", "f", "\"", ",", " ", "\"", "1", "b", "1", "1", "2", "c", "\"", "]">>
\* ["zz0000"]: a palette whose entry is no colour
Value_palette_zz ==
    <<"[", "\"", "z", "z", "0", "0", "0", "0", "\"", "]">>
\* ["ffffff": an array left open
Value_palette_open ==
    <<"[", "\"", "f", "f", "f", "f", "f", "f", "\"">>

EditValues ==
    { Value_half,
      Value_one,
      Value_x,
      Value_map_0431,
      Value_map_3102,
      Value_map_short,
      Value_palette_two,
      Value_palette_zz,
      Value_palette_open }

\* the ids of the four inputs of the view, and the id of another element
EditIds == {"threshold_map", "color_dither", "alpha_dither", "palette_hex", "img"}

\* what the image element can show, and the files a user can pick
Photo == [w |-> 1, h |-> 2, px |-> <<Grey, White>>]
AppImages == {NoImage, Photo}
AppFiles == { [name |-> "a.png", image |-> Photo] }
FileLists == { <<>> } \cup { <<f>> : f \in AppFiles }

\* run_with_parameters from pixel k on, in one piece: Ok with the buffer,
\* or a panic
RECURSIVE filter_pixels(_, _, _, _, _, _, _, _)
filter_pixels(image, tm, cd, ad, palette, err, k, out) ==
    IF k > Len(image.px) THEN [tag |-> "Ok", buf |-> out]
    ELSE LET r == loop_body(image.px[k], (k - 1) % image.w, (k - 1) \div image.w,
                            tm, cd, ad, palette, err,
                            fresh_error_c(OklabZero), fresh_error_a(0))
         IN  IF r.tag # "Ok" THEN [tag |-> "Panic"]
             ELSE filter_pixels(image, tm, cd, ad, palette, err, k + 1,
                                [out EXCEPT !.px[k] = r.px])

run_with_parameters_whole(image, tm, cd, ad, hexes, err) ==
    LET p == IF hexes = PALETTE_HEX THEN DEFAULT_PALETTE ELSE palette_as_oklab(hexes)
    IN  IF p.tag # "Ok" THEN [tag |-> "Panic"]
        ELSE filter_pixels(image, tm, cd, ad, p.val, err, 1,
                           new_buffer(image.w, image.h))

\* the field keeps the first value it was given
set_field_once(a, id, val) ==
    IF a[id] = App_create[id] THEN [a EXCEPT ![id] = val] ELSE a

\* `self.<id> = s`
set_field(a, id, val) == [a EXCEPT ![id] = val]

\* update is entered with msg: the App has not panicked, and the message
\* is put on record
update_enter(msg) ==
    /\ update_ret # "panic"
    /\ Len(msgs) < MaxMsgs
    /\ msgs' = Append(msgs, msg)
    /\ UNCHANGED << pc, img, threshold_map, color_dither, alpha_dither, palette_hex,
                    palette_oklab, output_buffer, cursor, error_c, error_a, writes,
                    result, fperr, call, ret >>

\* Msg::Loaded(file_name, file_type, data), sent by the reader of a file:
\* the image element shows the data and the reader is dropped
update_Loaded ==
    \E r \in app.readers :
        /\ update_enter([type |-> "Loaded", file_name |-> r.name])
        /\ app' = [app EXCEPT !.image_element = r.image,
                              !.readers = { q \in @ : q.name # r.name }]
        /\ update_ret' = "true"

\* Msg::Files(files): the first file, if there is one, gets a reader under
\* its name
update_Files ==
    \E some \in BOOLEAN, files \in FileLists :
        /\ ~some => files = <<>>
        /\ update_enter([type |-> "Files", some |-> some, files |-> files])
        /\ app' = IF some /\ Len(files) # 0
                  THEN [app EXCEPT !.readers =
                            { q \in @ : q.name # files[1].name } \cup {files[1]}]
                  ELSE app
        /\ update_ret' = "true"

\* Msg::Filter: the image is drawn on the canvas and read back, filtered
\* with the four fields, and the result is put on the canvas.  The unwrap of
\* run_with_parameters passes a panic on; an image without pixels is
\* refused by the canvas (an unwrap panics) or read as no pixels.
update_Filter ==
    \E dom_ok \in BOOLEAN :
        /\ dom_ok \/ Len(app.image_element.px) = 0
        /\ update_enter([type |-> "Filter"])
        /\ LET buf == run_with_parameters_whole(app.image_element, app.threshold_map,
                          app.color_dither, app.alpha_dither, app.palette_hex, fperr)
           IN  IF dom_ok /\ buf.tag = "Ok"
               THEN /\ app' = [app EXCEPT !.target_canvas = buf.buf]
                    /\ update_ret' = "true"
               ELSE /\ app' = [app EXCEPT !.target_canvas = app.image_element]
                    /\ update_ret' = "panic"

\* Msg::Random: the image element is pointed at a random picture, which
\* loads or does not
update_Random ==
    \E image \in AppImages :
        /\ update_enter([type |-> "Random"])
        /\ app' = [app EXCEPT !.image_element = image]
        /\ update_ret' = "true"

\* the parse that the arm of `match id.as_str()` applies to the value
parse_for(id, value) ==
    CASE id = "color_dither" -> parse_f32(value)
      [] id = "alpha_dither" -> parse_f32(value)
      [] id = "threshold_map" -> parse_threshold_map(value)
      [] id = "palette_hex" -> parse_palette_hex(value)

\* Msg::OnEdit(id, value)
update_OnEdit ==
    \E id \in EditIds, value \in EditValues :
        /\ update_enter([type |-> "OnEdit", id |-> id, value |-> value])
        /\ IF id \in {"color_dither", "alpha_dither", "threshold_map", "palette_hex"}
           THEN LET s == parse_for(id, value)
                IN  IF s.tag = "Ok"
                    THEN app' = set_field(app, id, s.val) /\ update_ret' = "true"
                    ELSE app' = app /\ update_ret' = "false"
           ELSE app' = app /\ update_ret' = "true"

NextApp ==
    \/ update_Loaded
    \/ update_Files
    \/ update_Filter
    \/ update_Random
    \/ update_OnEdit

\* the App starts as created; the conversion lands below, on or above the
\* exact value in all three channels alike
InitApp == Init /\ \A ch \in Channels : fperr[ch] = fperr[1]

SpecApp == InitApp /\ [][NextApp]_vars

(***************************************************************************)
(* Claims.                                                                 *)
(***************************************************************************)
Returned == pc = "returned"

IsMinimalAt(palette, color, i) ==
    \A j \in 1..Len(palette) :
        distance_squared(color, palette[j]) >= distance_squared(color, palette[i])

\* C2: for a non-empty palette, find_closest returns the entry of lowest
\* index among those at minimal squared distance: it is an entry, none is
\* strictly closer, and every entry before it is strictly farther.
C2_FirstNearestEntry ==
    (Returned /\ call.palette # <<>>) =>
        \E i \in 1..Len(call.palette) :
            /\ ret = call.palette[i]
            /\ IsMinimalAt(call.palette, call.color, i)
            /\ \A j \in 1..(i - 1) :
                   distance_squared(call.color, call.palette[j])
                       > distance_squared(call.color, call.palette[i])

\* a call where two different entries tie for nearest
C2_Witness ==
    /\ Returned
    /\ \E i, j \in 1..Len(call.palette) :
           /\ i < j
           /\ call.palette[i] # call.palette[j]
           /\ IsMinimalAt(call.palette, call.color, i)
           /\ IsMinimalAt(call.palette, call.color, j)
           /\ ret = call.palette[i]

SixHexDigits(hex) == Len(hex) = 6 /\ \A i \in 1..6 : hex[i] \in DOMAIN HexDigitValue

PairValue(hex, i) == 16 * HexDigitValue[hex[i]] + HexDigitValue[hex[i + 1]]

\* C4: hex_to_rgb succeeds exactly on the strings of 6 hexadecimal digits,
\* with the three digit pairs over 255 as channels, and returns an error on
\* every other string.
C4_OkExactlyOnSixHexDigits ==
    Returned =>
        IF SixHexDigits(call)
        THEN ret = [tag |-> "Ok",
                    rgb |-> srgb_of_bytes(PairValue(call, 1), PairValue(call, 3),
                                          PairValue(call, 5))]
        ELSE ret = [tag |-> "Err"]

\* C6: the candidate alphas are each 0 or 1, N * N of them, so the alpha
\* byte chosen at any index is 0 or 255; alpha 255 gives 255 and alpha 0
\* gives 0 at every index.
C6_AlphaCandidatesBinary ==
    Returned =>
        /\ Len(ret) = MAP_SIZE * MAP_SIZE
        /\ \A i \in 1..Len(ret) :
               /\ ret[i] \in {0, 1}
               /\ alpha_to_u8(sort_by_value(ret)[i]) \in {0, U8_MAX}
               /\ call.a = U8_MAX => alpha_to_u8(sort_by_value(ret)[i]) = U8_MAX
               /\ call.a = 0 => alpha_to_u8(sort_by_value(ret)[i]) = 0

\* an alpha strictly between, fed back: both values among the candidates
C6_Witness ==
    /\ Returned
    /\ call.ad.num > 0
    /\ \E i, j \in 1..Len(ret) : ret[i] = 0 /\ ret[j] = 1

InCall == pc \in {"rwp_loop", "run_loop", "done", "panicked"}

\* the positions the loop has written
WrittenPositions == 1..cursor

EntryBytes(hex) == <<PairValue(hex, 1), PairValue(hex, 3), PairValue(hex, 5)>>

ValidPalette(hexes) ==
    hexes # <<>> /\ \A i \in 1..Len(hexes) : SixHexDigits(hexes[i])

Bijective(tm) ==
    \A v \in 0..(Len(tm) * Len(tm) - 1) :
        Cardinality({ xy \in (1..Len(tm)) \X (1..Len(tm)) : tm[xy[1]][xy[2]] = v }) = 1

MapInRange(tm) ==
    \A x, y \in 1..Len(tm) : tm[x][y] \in 0..(Len(tm) * Len(tm) - 1)

Rgb(px) == <<px[1], px[2], px[3]>>

\* C1: with a non-empty palette of valid entries and a bijective threshold
\* map, the RGB bytes of every pixel written are the bytes of a palette
\* entry, as its hex string gives them.
C1_OutputInPalette ==
    (InCall /\ ValidPalette(palette_hex) /\ Bijective(threshold_map)) =>
        \A k \in WrittenPositions :
            \E i \in 1..Len(palette_hex) :
                Rgb(output_buffer.px[k]) = EntryBytes(palette_hex[i])

\* the bytes of the palette colour nearest to the pixel's colour
NearestBytes(pixel) ==
    SrgbTable[find_closest(palette_oklab,
                           to_oklab(srgb_of_bytes(pixel[1], pixel[2], pixel[3])))]

\* alpha / 255 rounded to 0 or 1, as a byte
RoundedAlpha(a) == IF 2 * a >= U8_MAX THEN U8_MAX ELSE 0

\* C3: with both dither coefficients 0 and a threshold map with values in
\* 0..N*N-1, the candidates of a pixel are all the same, and every pixel
\* written is the nearest palette entry with the input alpha rounded to 0
\* or 255, whatever the map.
C3_ZeroDitherIsNearest ==
    (InCall /\ color_dither.num = 0 /\ alpha_dither.num = 0 /\ MapInRange(threshold_map)) =>
        \A k \in WrittenPositions :
            LET st == pixel_candidates(img.px[k], threshold_map, color_dither,
                                       alpha_dither, palette_oklab, OklabZero, 0)
                near == NearestBytes(img.px[k])
            IN  /\ \A i \in 1..Len(st.candidates_c) :
                       /\ st.candidates_c[i] = st.candidates_c[1]
                       /\ st.candidates_a[i] = st.candidates_a[1]
                /\ output_buffer.px[k]
                       = <<near[1], near[2], near[3], RoundedAlpha(img.px[k][4])>>

\* C5: when an entry of the palette fails hex parsing, the call returns an
\* error value to its caller, with no pixel processed and no buffer
\* returned; the program is not aborted.
C5_ParseFailureIsAnError ==
    (InCall /\ \E i \in 1..Len(palette_hex) : hex_to_rgb(palette_hex[i]).tag # "Ok") =>
        /\ pc = "done"
        /\ result = "Err"
        /\ cursor = 0

\* C7: an image whose pixels all have a palette colour and alpha 0 or 255
\* comes back unchanged, byte for byte.
C7_Idempotent ==
    ( /\ pc = "done"
      /\ result = "Ok"
      /\ ValidPalette(palette_hex)
      /\ \A k \in 1..Len(img.px) :
             /\ img.px[k][4] \in {0, U8_MAX}
             /\ \E i \in 1..Len(palette_hex) : Rgb(img.px[k]) = EntryBytes(palette_hex[i]) )
    => output_buffer.px = img.px

\* C8: run on the 2 x 2 image of white pixels returns (255, 247, 255, 255)
\* at each of the four positions.
C8_WhiteTile ==
    ( /\ pc = "done"
      /\ palette_hex = PALETTE_HEX
      /\ img = [w |-> 2, h |-> 2, px |-> <<White, White, White, White>>] )
    => output_buffer.px = [k \in 1..4 |-> <<255, 247, 255, 255>>]

\* C9: a call that returns Ok returns a buffer of the input's width and
\* height in which every position was written exactly once (no position is
\* ever written twice), and the input buffer never changes during a call.
C9_NewBufferSameSize ==
    /\ [](result = "Ok" =>
            /\ output_buffer.w = img.w
            /\ output_buffer.h = img.h
            /\ Len(output_buffer.px) = img.w * img.h
            /\ \A k \in 1..Len(output_buffer.px) : writes[k] = 1)
    /\ [](\A k \in 1..Len(writes) : writes[k] <= 1)
    /\ [][pc # "idle" => img' = img]_vars

\* a returned buffer of two pixels or more that differs from the input
C9_Witness ==
    /\ result = "Ok"
    /\ img.w * img.h >= 2
    /\ output_buffer.px # img.px

\* the pixel the loop body writes at position k with fresh accumulators
PixelFunction(k) ==
    loop_body(img.px[k], (k - 1) % img.w, (k - 1) \div img.w, threshold_map,
              color_dither, alpha_dither, palette_oklab, fperr, OklabZero, 0).px

\* C10: in the buffer a call returns, the pixel at (x, y) is a function of
\* the input pixel at (x, y), of (x, y) through the threshold map, and of
\* the configuration alone: whatever the pixels before it were, it is what
\* the loop body gives from accumulators at zero.
C10_NoCrossPixelState ==
    result = "Ok" =>
        \A k \in 1..Len(output_buffer.px) : output_buffer.px[k] = PixelFunction(k)

\* a second pixel written after a first that left a nonzero colour error
C10_Witness ==
    /\ pc = "done"
    /\ cursor >= 2
    /\ color_dither.num > 0
    /\ pixel_candidates(img.px[1], threshold_map, color_dither, alpha_dither,
                        palette_oklab, OklabZero, 0).error_c # OklabZero
    /\ img.px[2] # img.px[1]

\* the palette of the call parsed, entry for entry: the loop is entered
PaletteParsed == palette_hex # <<>> /\ Len(palette_oklab) = Len(palette_hex)

\* the coordinates (x, y) of the k-th pixel of enumerate_pixels
XOf(k) == (k - 1) % img.w
YOf(k) == (k - 1) \div img.w

\* C11: with a threshold map that is a bijection onto 0..N*N-1, every pixel
\* (x, y) of the image gets exactly N*N colour candidates and N*N alpha
\* candidates, and threshold_map[x mod N][y mod N] is in 0..N*N-1, so the
\* selection is never out of range and the loop does not panic.  Stated of
\* the pixel the loop has just passed, which every pixel of the image is in
\* turn.
C11_CandidatesAndIndexInRange ==
    (InCall /\ PaletteParsed /\ Bijective(threshold_map)) =>
        /\ pc # "panicked"
        /\ \A k \in {cursor} \cap (1..Len(img.px)) :
           \A st \in {pixel_candidates(img.px[k], threshold_map, color_dither,
                                       alpha_dither, palette_oklab, OklabZero, 0)} :
               LET index == map_index(threshold_map, XOf(k), YOf(k))
                   n == Len(threshold_map)
               IN  /\ Len(st.candidates_c) = n * n
                   /\ Len(st.candidates_a) = n * n
                   /\ index \in 0..(n * n - 1)
                   /\ index < Len(sort_by_l(st.candidates_c))
                   /\ index < Len(sort_by_value(st.candidates_a))

\* a 2 x 2 image, one pixel at each tile position, filtered to the end with
\* a bijective map and dither on
C11_Witness ==
    /\ pc = "done"
    /\ result = "Ok"
    /\ Bijective(threshold_map)
    /\ color_dither.num > 0
    /\ img.w = 2
    /\ img.h = 2
    /\ cursor = 4

\* the candidates of the k-th pixel of the call
CandidatesAt(k) ==
    pixel_candidates(img.px[k], threshold_map, color_dither, alpha_dither,
                     palette_oklab, OklabZero, 0)

\* v is at position index (from 0) of the values vs put in ascending order:
\* at most index of them are below v and more than index are at or below v
HasRank(vs, v, index) ==
    /\ \E i \in 1..Len(vs) : vs[i] = v
    /\ Cardinality({ i \in 1..Len(vs) : vs[i] < v }) <= index
    /\ Cardinality({ i \in 1..Len(vs) : vs[i] <= v }) > index

Lightness(cs) == [i \in 1..Len(cs) |-> cs[i][1]]

\* the bytes written for the Oklab colour c
BytesOf(c) ==
    LET chosen_color == from_oklab(c, fperr)
    IN  <<to_u8(chosen_color[1]), to_u8(chosen_color[2]), to_u8(chosen_color[3])>>

\* C12: in a call that returns, the colour written at each pixel is a
\* candidate whose lightness has rank threshold_map[x mod N][y mod N] among
\* the candidates' lightnesses, and the alpha written is the candidate alpha
\* of that same rank among the alphas, each list ranked on its own.  So of
\* two positions holding the same input pixel, the one with the smaller or
\* equal map value gets the smaller or equal lightness and alpha.
C12_RankedSelection ==
    (pc = "done" /\ result = "Ok") =>
        \A p \in 1..Len(img.px) : \A st \in {CandidatesAt(p)} :
            LET index == map_index(threshold_map, XOf(p), YOf(p))
            IN  /\ \E i \in 1..Len(st.candidates_c) :
                       /\ HasRank(Lightness(st.candidates_c), st.candidates_c[i][1], index)
                       /\ Rgb(output_buffer.px[p]) = BytesOf(st.candidates_c[i])
                /\ \E i \in 1..Len(st.candidates_a) :
                       /\ HasRank(st.candidates_a, st.candidates_a[i], index)
                       /\ output_buffer.px[p][4] = alpha_to_u8(st.candidates_a[i])
                /\ \A q \in 1..Len(img.px) :
                       ( /\ img.px[p] = img.px[q]
                         /\ index <= map_index(threshold_map, XOf(q), YOf(q)) )
                       => /\ \A i, j \in 1..Len(st.candidates_c) :
                                 ( /\ HasRank(Lightness(st.candidates_c),
                                              st.candidates_c[i][1], index)
                                   /\ HasRank(Lightness(st.candidates_c),
                                              st.candidates_c[j][1],
                                              map_index(threshold_map, XOf(q), YOf(q))) )
                                 => st.candidates_c[i][1] <= st.candidates_c[j][1]
                          /\ output_buffer.px[p][4] <= output_buffer.px[q][4]

\* dither on, and two positions with the same input pixel get different
\* colours and different alphas: the ranks tell them apart
C12_Witness ==
    /\ pc = "done"
    /\ result = "Ok"
    /\ color_dither.num > 0
    /\ \E p, q \in 1..Len(img.px) :
           /\ img.px[p] = img.px[q]
           /\ Rgb(output_buffer.px[p]) # Rgb(output_buffer.px[q])
           /\ output_buffer.px[p][4] < output_buffer.px[q][4]

\* the map holds a value that is no index of the N*N candidates
Malformed(tm) == \E x, y \in 1..Len(tm) : tm[x][y] >= Len(tm) * Len(tm)

\* C13: with a threshold map holding a value of N*N or more,
\* run_with_parameters on a non-empty image raises no runtime error: the
\* call runs to its end and returns a buffer.
C13_MalformedMapNoError ==
    (InCall /\ PaletteParsed /\ Malformed(threshold_map) /\ Len(img.px) > 0) =>
        /\ pc # "panicked"
        /\ cursor = Len(img.px) => (pc = "done" => result = "Ok")

\* the four configuration fields of the App
ConfigFields == {"threshold_map", "color_dither", "alpha_dither", "palette_hex"}

\* m is an OnEdit for the field id whose value parses
GoodEdit(m, id) ==
    m.type = "OnEdit" /\ m.id = id /\ parse_for(id, m.value).tag = "Ok"

\* the value of the most recent good edit of id among the first k messages,
\* the constant App::create sets when there is none
RECURSIVE LastGood(_, _)
LastGood(id, k) ==
    IF k = 0 THEN App_create[id]
    ELSE IF GoodEdit(msgs[k], id) THEN parse_for(id, msgs[k].value).val
    ELSE LastGood(id, k - 1)

\* C14: after any sequence of messages each of threshold_map, color_dither,
\* alpha_dither and palette_hex holds the value of the most recent OnEdit
\* for it whose value parsed, or its default constant; so an OnEdit changes
\* at most the field it names, a value that fails to parse and an unknown id
\* change nothing, and no other message changes the four fields.  update
\* returns false exactly for an OnEdit of a field whose value fails to
\* parse.
C14_FieldsHoldLastGoodEdit ==
    /\ \A id \in ConfigFields : app[id] = LastGood(id, Len(msgs))
    /\ (msgs # <<>> /\ update_ret # "panic") =>
           LET m == msgs[Len(msgs)]
           IN  update_ret =
                   IF m.type = "OnEdit" /\ m.id \in ConfigFields
                      /\ parse_for(m.id, m.value).tag # "Ok"
                   THEN "false" ELSE "true"

\* a map was edited in, and the next edit of the map did not parse: the
\* first one is still there and update returned false
C14_Witness ==
    /\ Len(msgs) = 2
    /\ GoodEdit(msgs[1], "threshold_map")
    /\ msgs[2].type = "OnEdit"
    /\ msgs[2].id = "threshold_map"
    /\ ~GoodEdit(msgs[2], "threshold_map")
    /\ update_ret = "false"
    /\ app.threshold_map # THRESHOLD_MAP

====
